---- MODULE Spec2Model ----
(***************************************************************************)
(* tg-dump-word-cloud: the record scanner of read_messages, the text       *)
(* extraction of parse.rs, the tokenizer and counter of tokenizer.rs, and   *)
(* the stages of main, as a state machine.                                  *)
(*                                                                          *)
(* Strings are sequences of characters; a character is a one-symbol string. *)
(* Option<String> is a sequence of length 0 (None) or 1 (Some).             *)
(* Indices into chars are 0-based as in the source: CharAt(cs, i).          *)
(***************************************************************************)
EXTENDS Integers, Sequences, FiniteSets, TLC

VARIABLES
    chars,            \* read_messages: the file content as Vec<char>
    pc,               \* position in main / read_messages
    start_idx,        \* read_messages: the scan cursor
    messages,         \* read_messages: Vec<Message> decoded so far
    spans,            \* history: the <<start, end>> spans handed to the decoder
    abandoned,        \* history: <<p, cursor after>> for each unmatched '{'
    exit,             \* how main ended: "none", "ok", "read_error",
                      \* "no_valid_messages", "write_error"
    text,             \* the String returned by extract_message_text
    simple_messages,  \* main: Vec<SimpleMessage>
    min_length,       \* args.min_length
    max_words,        \* args.max_words
    tokens,           \* main: Vec<Token> from tokenize_messages
    filtered_tokens,  \* main: after filter_stop_words
    stemmed_tokens,   \* main: after stem_tokens
    word_counts,      \* main: HashMap<String, usize>, a function on its keys
    words             \* main: the sorted, truncated Vec<(String, usize)>

vars == <<chars, pc, start_idx, messages, spans, abandoned, exit, text,
          simple_messages, min_length, max_words, tokens, filtered_tokens,
          stemmed_tokens, word_counts, words>>

(***************************************************************************)
(* Bounds                                                                   *)
(***************************************************************************)
\* longest file content, in characters
MaxLen == 7

\* Sequences over S of length at most n
SeqUpTo(S, n) == UNION {[1..k -> S] : k \in 0..n}

None == <<>>
Some(s) == <<s>>

Min(a, b) == IF a < b THEN a ELSE b
Max(a, b) == IF a > b THEN a ELSE b

(***************************************************************************)
(* Message and serde_json::Value                                            *)
(***************************************************************************)
NullValue == [kind |-> "Null"]
NumberValue == [kind |-> "Number"]
StringValue(s) == [kind |-> "String", s |-> s]
ArrayValue(parts) == [kind |-> "Array", parts |-> parts]
\* an object with no "text" key, or with "text" bound to the value t
ObjectNoText == [kind |-> "Object", has_text |-> FALSE]
ObjectValue(t) == [kind |-> "Object", has_text |-> TRUE, text |-> t]

TextEntity(s) == [text |-> s]

Message(from, from_id, txt, text_entities) ==
    [from |-> from, from_id |-> from_id, text |-> txt,
     text_entities |-> text_entities]

SimpleMessage(username, txt) == [username |-> username, text |-> txt]

(***************************************************************************)
(* The file content: '{', '}', and two characters standing for record      *)
(* bodies.  "m" is the body of a record with the required fields and a      *)
(* text; "e" is the body of a record with the required fields and an        *)
(* empty text.  Anywhere else these characters are ordinary text.           *)
(***************************************************************************)
Alphabet == {"{", "}", "m", "e"}

CharAt(cs, i) == cs[i + 1]

\* chars[start..=end].iter().collect()
Slice(cs, start, end) == SubSeq(cs, start + 1, end + 1)

\* the text carried by a record with body "m"
BodyText == <<"R", "u", "s", "t", "s">>
BodyFrom == <<"a", "l">>

\* whether s[i..] is a run of balanced braces and nothing else, entered at depth
RECURSIVE BalancedBraces(_, _, _)
BalancedBraces(s, i, depth) ==
    IF i > Len(s) THEN depth = 0
    ELSE IF s[i] = "{" THEN BalancedBraces(s, i + 1, depth + 1)
    ELSE IF s[i] = "}" THEN depth > 0 /\ BalancedBraces(s, i + 1, depth - 1)
    ELSE FALSE

\* serde_json::from_str::<Message>(&json_str): <<message>> on Ok, <<>> on Err.
\* A span decodes when it is '{', one record body, then nested objects holding
\* nothing (values of fields the decoder ignores), '}'.
Decode(json_str) ==
    IF /\ Len(json_str) >= 3
       /\ json_str[1] = "{"
       /\ json_str[Len(json_str)] = "}"
       /\ BalancedBraces(SubSeq(json_str, 3, Len(json_str) - 1), 1, 0)
    THEN IF json_str[2] = "m"
         THEN <<Message(Some(BodyFrom), None, StringValue(BodyText), <<>>)>>
         ELSE IF json_str[2] = "e"
         THEN <<Message(None, None, StringValue(<<>>), <<>>)>>
         ELSE <<>>
    ELSE <<>>

(***************************************************************************)
(* read_messages: the scan loop                                             *)
(***************************************************************************)
\* for i in from..chars.len() { if chars[i] == '{' { obj_start = Some(i); break } }
\* -1 is None
RECURSIVE FindStart(_, _)
FindStart(cs, i) ==
    IF i >= Len(cs) THEN -1
    ELSE IF CharAt(cs, i) = "{" THEN i
    ELSE FindStart(cs, i + 1)

\* C1's mutant: the first '}' closes the span, whatever the depth
RECURSIVE FindEndFirstClose(_, _, _)
FindEndFirstClose(cs, i, brace_count) ==
    IF i >= Len(cs) THEN -1
    ELSE IF CharAt(cs, i) = "}" THEN i
    ELSE FindEndFirstClose(cs, i + 1, brace_count)

\* for i in (start + 1)..chars.len() { match chars[i] { ... } }, entered at i with
\* brace_count; -1 is None
RECURSIVE FindEnd(_, _, _)
FindEnd(cs, i, brace_count) ==
    IF i >= Len(cs) THEN -1
    ELSE IF CharAt(cs, i) = "{" THEN FindEnd(cs, i + 1, brace_count + 1)
    ELSE IF CharAt(cs, i) = "}"
         THEN IF brace_count - 1 = 0 THEN i
              ELSE FindEnd(cs, i + 1, brace_count - 1)
    ELSE FindEnd(cs, i + 1, brace_count)

\* what the pipeline stages after read_messages leave alone
mainVars == <<text, simple_messages, min_length, max_words, tokens,
              filtered_tokens, stemmed_tokens, word_counts, words>>

\* std::fs::read_to_string(file_path) ... ?
ReadFile ==
    /\ pc = "read"
    /\ \/ pc' = "scan" /\ exit' = exit
       \/ pc' = "fatal" /\ exit' = "read_error"
    /\ UNCHANGED <<chars, start_idx, messages, spans, abandoned, mainVars>>

\* C2's mutant: the cursor stays on the unmatched '{'
AfterUnmatchedStuck(start) == start

\* C3's mutant: the scan gives up at an unmatched '{'
AfterUnmatchedGiveUp(start) == Len(chars)

\* the cursor after an unmatched '{' at start
AfterUnmatched(start) == start + 1

\* the cursor after a span ending at end
AfterSpan(end) == end + 1

\* messages after the decoder has seen json_str
AfterDecode(msgs, json_str) == msgs \o Decode(json_str)

\* C4's mutant: a span that fails to decode ends the scan
AfterDecodePcAbort(json_str) == IF Decode(json_str) = <<>> THEN "scanned" ELSE "scan"

\* where the loop goes after the match on the decoder's result: both arms fall
\* through to start_idx = end + 1 and the next iteration
AfterDecodePc(json_str) == "scan"

\* one iteration of  while start_idx < chars.len()
ScanStep ==
    /\ pc = "scan"
    /\ start_idx < Len(chars)
    /\ LET start == FindStart(chars, start_idx)
           end == FindEnd(chars, start + 1, 1)
       IN  \/ /\ start # -1 /\ end # -1
              /\ messages' = AfterDecode(messages, Slice(chars, start, end))
              /\ spans' = Append(spans, <<start, end>>)
              /\ start_idx' = AfterSpan(end)
              /\ pc' = AfterDecodePc(Slice(chars, start, end))
              /\ UNCHANGED abandoned
           \/ /\ start # -1 /\ end = -1
              /\ start_idx' = AfterUnmatched(start)
              /\ abandoned' = Append(abandoned, <<start, start_idx'>>)
              /\ UNCHANGED <<pc, messages, spans>>
           \/ /\ start = -1
              /\ pc' = "scanned"
              /\ UNCHANGED <<start_idx, messages, spans, abandoned>>
    /\ UNCHANGED <<chars, exit, mainVars>>

\* the loop condition fails
ScanExit ==
    /\ pc = "scan"
    /\ ~(start_idx < Len(chars))
    /\ pc' = "scanned"
    /\ UNCHANGED <<chars, start_idx, messages, spans, abandoned, exit, mainVars>>

\* C5's mutant: the error is raised when no span was found
NoSpans(msgs) == spans = <<>>

\* if messages.is_empty() { bail!(..) }  Ok(messages)
NoValidMessages(msgs) == msgs = <<>>

ReadReturn ==
    /\ pc = "scanned"
    /\ IF NoValidMessages(messages)
       THEN pc' = "fatal" /\ exit' = "no_valid_messages"
       ELSE pc' = "simplify" /\ exit' = exit
    /\ UNCHANGED <<chars, start_idx, messages, spans, abandoned, mainVars>>

(***************************************************************************)
(* parse.rs: extract_message_text and simplify_messages                     *)
(***************************************************************************)
\* String::push_str over a sequence of strings
RECURSIVE Concat(_)
Concat(ss) == IF ss = <<>> THEN <<>> ELSE Head(ss) \o Concat(Tail(ss))

\* C7's mutant: only the object elements of the array are read
PartTextObjectsOnly(part) ==
    IF part.kind = "Object"
    THEN IF part.has_text /\ part.text.kind = "String" THEN part.text.s ELSE <<>>
    ELSE <<>>

\* what one element of the text array pushes onto result
PartText(part) ==
    IF part.kind = "Object"
    THEN IF part.has_text /\ part.text.kind = "String" THEN part.text.s ELSE <<>>
    ELSE IF part.kind = "String" THEN part.s
    ELSE <<>>

\* the `_` arm: text_entities joined with ""
EntitiesText(text_entities) ==
    IF text_entities # <<>>
    THEN Concat([i \in 1..Len(text_entities) |-> text_entities[i].text])
    ELSE <<>>

extract_message_text(message) ==
    IF message.text.kind = "String" THEN message.text.s
    ELSE IF message.text.kind = "Array"
    THEN Concat([i \in 1..Len(message.text.parts) |->
                    PartText(message.text.parts[i])])
    ELSE EntitiesText(message.text_entities)

Anonymous == <<"a", "n", "o", "n", "y", "m", "o", "u", "s">>

\* C8's mutant: the author id is preferred to the author name
UsernameIdFirst(msg) ==
    IF msg.from_id # None THEN msg.from_id[1]
    ELSE IF msg.from # None THEN msg.from[1]
    ELSE Anonymous

\* match &msg.from { Some(name) => .., None => match &msg.from_id { .. } }
Username(msg) ==
    IF msg.from # None THEN msg.from[1]
    ELSE IF msg.from_id # None THEN msg.from_id[1]
    ELSE Anonymous

\* the filter_map closure: <<>> is None, <<sm>> is Some(sm)
SimplifyOne(msg) ==
    LET t == extract_message_text(msg)
    IN  IF t = <<>> THEN <<>>
        ELSE <<SimpleMessage(Username(msg), t)>>

RECURSIVE simplify_messages(_)
simplify_messages(msgs) ==
    IF msgs = <<>> THEN <<>>
    ELSE SimplifyOne(Head(msgs)) \o simplify_messages(Tail(msgs))

(***************************************************************************)
(* tokenizer.rs                                                             *)
(***************************************************************************)
UpperLetters == <<"A", "B", "C", "D", "E", "F", "G", "H", "I", "J", "K", "L", "M",
                  "N", "O", "P", "Q", "R", "S", "T", "U", "V", "W", "X", "Y", "Z">>
LowerLetters == <<"a", "b", "c", "d", "e", "f", "g", "h", "i", "j", "k", "l", "m",
                  "n", "o", "p", "q", "r", "s", "t", "u", "v", "w", "x", "y", "z">>
\* a Cyrillic capital and its small letter, two bytes each in UTF-8
CyrUpper == "ZHE"
CyrLower == "zhe"
\* the Kelvin sign U+212A, three bytes in UTF-8; its lowercase is the ASCII "k"
Kelvin == "KELVIN"
Digits == {"0", "1", "2", "3", "4", "5", "6", "7", "8", "9"}

Range(f) == {f[i] : i \in DOMAIN f}

\* \p{L}
IsLetter(c) ==
    c \in Range(UpperLetters) \cup Range(LowerLetters)
            \cup {CyrUpper, CyrLower, Kelvin}

\* [\p{L}\p{N}_-]
IsWordChar(c) == IsLetter(c) \/ c \in Digits \/ c = "_" \/ c = "-"

\* char::to_lowercase
LowerChar(c) ==
    IF c \in Range(UpperLetters)
    THEN LowerLetters[CHOOSE i \in DOMAIN UpperLetters : UpperLetters[i] = c]
    ELSE IF c = CyrUpper THEN CyrLower
    ELSE IF c = Kelvin THEN "k"
    ELSE c

\* str::to_lowercase
to_lowercase(s) == [i \in 1..Len(s) |-> LowerChar(s[i])]

\* the UTF-8 length of one character
ByteLen(c) ==
    IF c \in {CyrUpper, CyrLower} THEN 2 ELSE IF c = Kelvin THEN 3 ELSE 1

\* String::len: the length in bytes
RECURSIVE StrLen(_)
StrLen(s) == IF s = <<>> THEN 0 ELSE ByteLen(Head(s)) + StrLen(Tail(s))

\* the end (exclusive, 1-based) of the greedy match of [..]+ that starts at i
RECURSIVE MatchEnd(_, _)
MatchEnd(t, i) ==
    IF i <= Len(t) /\ IsWordChar(t[i]) THEN MatchEnd(t, i + 1) ELSE i

\* word_regex.find_iter(t), from position i on: the matches, left to right
RECURSIVE FindIter(_, _)
FindIter(t, i) ==
    IF i > Len(t) THEN <<>>
    ELSE IF IsWordChar(t[i])
         THEN <<SubSeq(t, i, MatchEnd(t, i) - 1)>> \o FindIter(t, MatchEnd(t, i))
         ELSE FindIter(t, i + 1)

Token(word) == [word |-> word]

\* C9's mutant: the length is counted in characters
TooShortInChars(word, min) == Len(word) < min

\* if word.len() < min_length { continue }
TooShort(word, min) == StrLen(word) < min

\* the body of  for capture in word_regex.find_iter(&message.text)
RECURSIVE TokensOf(_, _)
TokensOf(matches, min) ==
    IF matches = <<>> THEN <<>>
    ELSE LET word == to_lowercase(Head(matches))
         IN  (IF TooShort(word, min) THEN <<>> ELSE <<Token(word)>>)
                \o TokensOf(Tail(matches), min)

RECURSIVE tokenize_messages(_, _)
tokenize_messages(msgs, min) ==
    IF msgs = <<>> THEN <<>>
    ELSE TokensOf(FindIter(Head(msgs).text, 1), min)
            \o tokenize_messages(Tail(msgs), min)

\* get_russian_stopwords(): the entries that the model's characters can spell
get_russian_stopwords == {<<"h", "t", "t", "p", "s">>}

filter_stop_words(toks, stop_words) ==
    SelectSeq(toks, LAMBDA tok : tok.word \notin stop_words)

\* Stemmer::stem for Algorithm::English, reduced to its plural step: a final
\* "s" is removed unless it follows "s" or "u" or the word is too short
Stem(w) ==
    IF Len(w) > 2 /\ w[Len(w)] = "s" /\ w[Len(w) - 1] \notin {"s", "u"}
    THEN SubSeq(w, 1, Len(w) - 1)
    ELSE w

stem_tokens(toks) == [i \in 1..Len(toks) |-> Token(Stem(toks[i].word))]

\* *word_counts.entry(word).or_insert(0) += 1
CountOne(counts, word) ==
    IF word \in DOMAIN counts
    THEN [counts EXCEPT ![word] = @ + 1]
    ELSE [w \in DOMAIN counts \cup {word} |->
            IF w = word THEN 0 + 1 ELSE counts[w]]

EmptyMap == [w \in {} |-> 0]

RECURSIVE CountFrom(_, _)
CountFrom(counts, toks) ==
    IF toks = <<>> THEN counts
    ELSE CountFrom(CountOne(counts, Head(toks).word), Tail(toks))

count_words(toks) == CountFrom(EmptyMap, toks)

(***************************************************************************)
(* main: sort by frequency and take the top N words                         *)
(***************************************************************************)
\* the orders in which a HashMap with keys S may be iterated
Orderings(S) ==
    {f \in [1..Cardinality(S) -> S] : \A i, j \in DOMAIN f : f[i] = f[j] => i = j}

\* word_counts.into_iter().collect(), iterated in the given order
Collect(counts, order) == [i \in DOMAIN order |-> <<order[i], counts[order[i]]>>]

\* C10's mutant: the comparator is a.1.cmp(&b.1)
NotAfterAscending(a, b) == a[2] <= b[2]

\* whether a goes before b or stays level with it under |a, b| b.1.cmp(&a.1)
NotAfter(a, b) == a[2] >= b[2]

\* x put into a list sorted by the comparator, behind the elements it does not beat
InsertSorted(sorted, x) ==
    LET k == Cardinality({i \in DOMAIN sorted : NotAfter(sorted[i], x)})
    IN  SubSeq(sorted, 1, k) \o <<x>> \o SubSeq(sorted, k + 1, Len(sorted))

\* words.sort_by(|a, b| b.1.cmp(&a.1)): a stable sort
RECURSIVE sort_by(_)
sort_by(ws) ==
    IF ws = <<>> THEN <<>>
    ELSE InsertSorted(sort_by(SubSeq(ws, 1, Len(ws) - 1)), ws[Len(ws)])

\* Vec::truncate
truncate(ws, n) == SubSeq(ws, 1, Min(n, Len(ws)))

(***************************************************************************)
(* main: the stages after read_messages                                     *)
(***************************************************************************)
\* #[arg(default_value_t = 3)] min_length
DefaultMinLength == 3
\* #[arg(default_value_t = 100)] max_words
DefaultMaxWords == 100
\* args.min_length.max(4)
MinLengthFloor == 4

scanVars == <<chars, start_idx, messages, spans, abandoned>>

\* let text = extract_message_text(msg), for one message
ExtractText ==
    /\ pc = "extract"
    /\ text' = extract_message_text(messages[1])
    /\ pc' = "extracted"
    /\ UNCHANGED <<scanVars, exit, simple_messages, min_length, max_words, tokens,
                   filtered_tokens, stemmed_tokens, word_counts, words>>

\* C6's mutant: main stops when no message has text
SimplifyOrFail ==
    /\ pc = "simplify"
    /\ simple_messages' = simplify_messages(messages)
    /\ IF simple_messages' = <<>>
       THEN pc' = "fatal" /\ exit' = "no_valid_messages"
       ELSE pc' = "tokenize" /\ exit' = exit
    /\ UNCHANGED <<scanVars, text, min_length, max_words, tokens,
                   filtered_tokens, stemmed_tokens, word_counts, words>>

\* let simple_messages = parse::simplify_messages(&messages);
Simplify ==
    /\ pc = "simplify"
    /\ simple_messages' = simplify_messages(messages)
    /\ pc' = "tokenize"
    /\ UNCHANGED <<scanVars, exit, text, min_length, max_words, tokens,
                   filtered_tokens, stemmed_tokens, word_counts, words>>

\* tokenizer::tokenize_messages(&simple_messages, args.min_length.max(4))
Tokenize ==
    /\ pc = "tokenize"
    /\ tokens' = tokenize_messages(simple_messages, Max(min_length, MinLengthFloor))
    /\ pc' = "filter"
    /\ UNCHANGED <<scanVars, exit, text, simple_messages, min_length, max_words,
                   filtered_tokens, stemmed_tokens, word_counts, words>>

FilterStopWords ==
    /\ pc = "filter"
    /\ filtered_tokens' = filter_stop_words(tokens, get_russian_stopwords)
    /\ pc' = "stem"
    /\ UNCHANGED <<scanVars, exit, text, simple_messages, min_length, max_words,
                   tokens, stemmed_tokens, word_counts, words>>

StemTokens ==
    /\ pc = "stem"
    /\ stemmed_tokens' = stem_tokens(filtered_tokens)
    /\ pc' = "count"
    /\ UNCHANGED <<scanVars, exit, text, simple_messages, min_length, max_words,
                   tokens, filtered_tokens, word_counts, words>>

CountWords ==
    /\ pc = "count"
    /\ word_counts' = count_words(stemmed_tokens)
    /\ pc' = "rank"
    /\ UNCHANGED <<scanVars, exit, text, simple_messages, min_length, max_words,
                   tokens, filtered_tokens, stemmed_tokens, words>>

\* collect, sort_by, truncate
Rank ==
    /\ pc = "rank"
    /\ \E order \in Orderings(DOMAIN word_counts) :
          words' = truncate(sort_by(Collect(word_counts, order)), max_words)
    /\ pc' = "save_txt"
    /\ UNCHANGED <<scanVars, exit, text, simple_messages, min_length, max_words,
                   tokens, filtered_tokens, stemmed_tokens, word_counts>>

\* save_word_counts_for_python(&words, &python_data_path)?
SaveWordCounts ==
    /\ pc = "save_txt"
    /\ \/ pc' = "render" /\ exit' = exit
       \/ pc' = "fatal" /\ exit' = "write_error"
    /\ UNCHANGED <<scanVars, mainVars>>

\* WordCloud::new()...generate(wc_tokens); wc.save(&args.output)?; Ok(())
Render ==
    /\ pc = "render"
    /\ \/ pc' = "done" /\ exit' = "ok"
       \/ pc' = "fatal" /\ exit' = "write_error"
    /\ UNCHANGED <<scanVars, mainVars>>

(***************************************************************************)
(* The program: main on a file of at most MaxLen characters                 *)
(***************************************************************************)
Blank ==
    /\ start_idx = 0 /\ spans = <<>> /\ abandoned = <<>> /\ exit = "none"
    /\ text = <<>> /\ tokens = <<>> /\ filtered_tokens = <<>>
    /\ word_counts = EmptyMap /\ words = <<>>

Init ==
    /\ chars \in SeqUpTo(Alphabet, MaxLen)
    /\ pc = "read"
    /\ messages = <<>>
    /\ simple_messages = <<>>
    /\ stemmed_tokens = <<>>
    /\ min_length = DefaultMinLength
    /\ max_words = DefaultMaxWords
    /\ Blank

Next ==
    \/ ReadFile
    \/ ScanStep
    \/ ScanExit
    \/ ReadReturn
    \/ Simplify
    \/ Tokenize
    \/ FilterStopWords
    \/ StemTokens
    \/ CountWords
    \/ Rank
    \/ SaveWordCounts
    \/ Render

Spec == Init /\ [][Next]_vars

\* main is one thread that runs to its end: no step is postponed for ever
FairSpec == Spec /\ WF_vars(Next)

\* read_messages alone, from the loop's entry
InitScan ==
    /\ chars \in SeqUpTo(Alphabet, MaxLen)
    /\ pc = "scan"
    /\ messages = <<>>
    /\ simple_messages = <<>>
    /\ stemmed_tokens = <<>>
    /\ min_length = DefaultMinLength
    /\ max_words = DefaultMaxWords
    /\ Blank

NextScan == ScanStep \/ ScanExit

SpecScan == InitScan /\ [][NextScan]_vars /\ WF_vars(NextScan)

(***************************************************************************)
(* extract_message_text alone, on one message                               *)
(***************************************************************************)
\* most elements in a text array
MaxParts == 3
\* most entries in text_entities
MaxEntities == 2

PartValues ==
    {StringValue(<<>>), StringValue(<<"a">>),
     ObjectValue(StringValue(<<"b">>)), ObjectValue(StringValue(<<"c">>)),
     ObjectValue(NumberValue), ObjectNoText, NumberValue,
     ArrayValue(<<StringValue(<<"a">>)>>)}

TextValues ==
    {NullValue, NumberValue, ObjectNoText, ObjectValue(StringValue(<<"b">>)),
     StringValue(<<>>), StringValue(<<"h", "e", "l", "l", "o">>)}
        \cup {ArrayValue(parts) : parts \in SeqUpTo(PartValues, MaxParts)}

EntityLists ==
    SeqUpTo({TextEntity(<<>>), TextEntity(<<"x">>), TextEntity(<<"y">>)},
            MaxEntities)

InitExtract ==
    /\ \E txt \in TextValues, ents \in EntityLists :
          messages = <<Message(None, None, txt, ents)>>
    /\ pc = "extract"
    /\ chars = <<>>
    /\ simple_messages = <<>>
    /\ stemmed_tokens = <<>>
    /\ min_length = DefaultMinLength
    /\ max_words = DefaultMaxWords
    /\ Blank

NextExtract == ExtractText

SpecExtract == InitExtract /\ [][NextExtract]_vars

(***************************************************************************)
(* simplify_messages alone, on a list of messages                           *)
(***************************************************************************)
\* most messages in the list
MaxMsgs == 2

Authors == {None, Some(<<>>), Some(<<"a", "l">>)}
AuthorIds == {None, Some(<<>>), Some(<<"u", "1">>)}

SimplifyTexts ==
    {NullValue, StringValue(<<"h", "i">>),
     ArrayValue(<<StringValue(<<>>), ObjectValue(StringValue(<<"a">>))>>)}

SimplifyMessages ==
    {Message(f, id, txt, ents) :
        f \in Authors, id \in AuthorIds, txt \in SimplifyTexts,
        ents \in {<<>>, <<TextEntity(<<"x">>)>>}}

InitSimplify ==
    /\ messages \in SeqUpTo(SimplifyMessages, MaxMsgs)
    /\ pc = "simplify"
    /\ chars = <<>>
    /\ simple_messages = <<>>
    /\ stemmed_tokens = <<>>
    /\ min_length = DefaultMinLength
    /\ max_words = DefaultMaxWords
    /\ Blank

NextSimplify == Simplify

SpecSimplify == InitSimplify /\ [][NextSimplify]_vars

(***************************************************************************)
(* tokenize_messages alone, as main calls it                                *)
(***************************************************************************)
\* most characters in all the message texts together
MaxTextLen == 4
\* largest --min-length
MaxMinLength == 5

TextAlphabet == {"A", "_", " ", CyrUpper, Kelvin}

\* "Hi there RUST-lang 123 a"
ExampleText ==
    <<"H", "i", " ", "t", "h", "e", "r", "e", " ", "R", "U", "S", "T", "-", "l",
      "a", "n", "g", " ", "1", "2", "3", " ", "a">>

\* t cut into messages behind the positions in cuts
RECURSIVE Pieces(_, _, _)
Pieces(t, cuts, from) ==
    IF from > Len(t) THEN <<>>
    ELSE LET ends == {c \in cuts : c >= from /\ c < Len(t)} \cup {Len(t)}
             to == CHOOSE c \in ends : \A d \in ends : c <= d
         IN  <<SimpleMessage(Anonymous, SubSeq(t, from, to))>>
                \o Pieces(t, cuts, to + 1)

InitTok ==
    /\ \/ \E t \in SeqUpTo(TextAlphabet, MaxTextLen),
             cuts \in SUBSET (1..(MaxTextLen - 1)) :
                simple_messages = Pieces(t, cuts, 1)
       \/ simple_messages = <<SimpleMessage(Anonymous, ExampleText)>>
    /\ min_length \in DefaultMinLength..MaxMinLength
    /\ pc = "tokenize"
    /\ chars = <<>>
    /\ messages = <<>>
    /\ stemmed_tokens = <<>>
    /\ max_words = DefaultMaxWords
    /\ Blank

NextTok == Tokenize

SpecTok == InitTok /\ [][NextTok]_vars

(***************************************************************************)
(* count_words and the ranking of main alone, on a stemmed token sequence   *)
(***************************************************************************)
\* most stemmed tokens
MaxTokens == 4
\* largest --max-words
MaxN == 3

RankWords == {<<"a">>, <<"b">>, <<"c">>}

\* a sequence of n copies of x
Copies(n, x) == [i \in 1..n |-> x]

\* a token sequence with the counts a: 5, b: 9, c: 1
ExampleTokens ==
    Copies(4, Token(<<"b">>)) \o Copies(5, Token(<<"a">>)) \o <<Token(<<"c">>)>>
        \o Copies(5, Token(<<"b">>))

InitRank ==
    /\ \/ /\ \E ws \in SeqUpTo(RankWords, MaxTokens) :
                stemmed_tokens = [i \in DOMAIN ws |-> Token(ws[i])]
          /\ max_words \in 0..MaxN
       \/ /\ stemmed_tokens = ExampleTokens
          /\ max_words = 2
    /\ pc = "count"
    /\ chars = <<>>
    /\ messages = <<>>
    /\ simple_messages = <<>>
    /\ min_length = DefaultMinLength
    /\ Blank

NextRank == CountWords \/ Rank

SpecRank == InitRank /\ [][NextRank]_vars

(***************************************************************************)
(* The scanner, stated without the loop                                     *)
(***************************************************************************)
IsOpen(cs, p) == CharAt(cs, p) = "{"
IsClose(cs, p) == CharAt(cs, p) = "}"

\* the nesting depth after position q, counted from 1 at the '{' at position s
Depth(cs, s, q) ==
    1 + Cardinality({i \in (s + 1)..q : IsOpen(cs, i)})
      - Cardinality({i \in (s + 1)..q : IsClose(cs, i)})

\* the positions after s at which the depth is back to 0
Closers(cs, s) == {q \in (s + 1)..(Len(cs) - 1) : Depth(cs, s, q) = 0}

\* the first of them, or -1
MatchOf(cs, s) ==
    IF Closers(cs, s) = {} THEN -1
    ELSE CHOOSE q \in Closers(cs, s) : \A r \in Closers(cs, s) : q <= r

\* the '{' at q closes, and no closing span that starts in lo..q-1 holds it
Outermost(cs, lo, q) ==
    /\ IsOpen(cs, q)
    /\ MatchOf(cs, q) # -1
    /\ ~\E s \in lo..(q - 1) : IsOpen(cs, s) /\ MatchOf(cs, s) > q

Positions(cs) == 0..(Len(cs) - 1)
ScanOver == pc \notin {"read", "scan"} /\ exit # "read_error"
Started(p) == \E k \in DOMAIN abandoned : abandoned[k][1] = p
Covered(p) == \E k \in DOMAIN spans : spans[k][1] <= p /\ p <= spans[k][2]
SpanTexts == [k \in DOMAIN spans |-> Slice(chars, spans[k][1], spans[k][2])]
Fails(k) == Decode(SpanTexts[k]) = <<>>

Nested == <<"{", "m", "{", "e", "}", "m", "}">>

\* C1: every span the scan emits runs from a '{' to the first later '}' at which
\* the depth, 1 at that '{', is back to 0; the spans come left to right and are
\* disjoint; an opening brace the scan started from and left has no such '}';
\* once the scan is over every '{' is inside a span or was left unmatched; and
\* {m{e}m} gives the one span 0..6.
C1_BraceMatching ==
    /\ \A k \in DOMAIN spans :
          /\ IsOpen(chars, spans[k][1])
          /\ spans[k][2] = MatchOf(chars, spans[k][1])
    /\ \A k \in DOMAIN spans : k < Len(spans) => spans[k][2] < spans[k + 1][1]
    /\ \A k \in DOMAIN abandoned : MatchOf(chars, abandoned[k][1]) = -1
    /\ \A p \in Positions(chars) :
          (IsOpen(chars, p) /\ (ScanOver \/ (pc = "scan" /\ p < start_idx)))
             => (Covered(p) \/ Started(p))
    /\ (chars = Nested /\ ScanOver) => spans = << <<0, 6>> >>

C1_Witness == chars = Nested /\ pc = "scanned" /\ spans = << <<0, 6>> >>

LastEnd == IF spans = <<>> THEN -1 ELSE spans[Len(spans)][2]
LastLeft == IF abandoned = <<>> THEN -1 ELSE abandoned[Len(abandoned)][1]
NoOpenFrom(cs, i) == \A p \in Positions(cs) : p >= i => ~IsOpen(cs, p)

\* C2: an iteration that stays in the loop moves the cursor strictly forward, to
\* end + 1 after a span and to start + 1 after an unmatched '{', and never past
\* the end of the input; the loop is left exactly when the cursor is at the end
\* or no '{' is at or after it; and the loop is always left.
C2_ScanTerminates ==
    /\ [][(pc = "scan" /\ pc' = "scan") =>
            /\ start_idx' > start_idx
            /\ start_idx' <= Len(chars)
            /\ spans' # spans => start_idx' = LastEnd' + 1
            /\ abandoned' # abandoned => start_idx' = LastLeft' + 1
            /\ spans' # spans \/ abandoned' # abandoned]_vars
    /\ [][pc = "scan" =>
            ((pc' = "scanned") <=>
                (start_idx >= Len(chars) \/ NoOpenFrom(chars, start_idx)))]_vars
    /\ (pc = "scan") ~> (pc = "scanned")

C2_Witness == pc = "scanned" /\ Len(spans) >= 1 /\ Len(abandoned) >= 1

Valid == <<"{", "m", "}">>
Dangling1 == Valid \o <<"{">> \o Valid
Dangling2 == Valid \o <<"{", "m">> \o Valid

\* C3: an opening brace p left unmatched has no closing partner and starts no
\* span, and the cursor after it is p + 1; once the scan is over, every closing
\* span that starts after p and lies in no other closing span that starts after
\* p has been emitted; and two valid records with a dangling '{' between them
\* give exactly the two records' messages.
C3_UnmatchedBrace ==
    /\ \A k \in DOMAIN abandoned :
          LET p == abandoned[k][1]
          IN  /\ abandoned[k][2] = p + 1
              /\ \A j \in DOMAIN spans : spans[j][1] # p
              /\ ScanOver =>
                    \A q \in Positions(chars) :
                       (q > p /\ Outermost(chars, p + 1, q))
                          => \E j \in DOMAIN spans :
                                spans[j] = <<q, MatchOf(chars, q)>>
    /\ (chars \in {Dangling1, Dangling2} /\ ScanOver)
          => messages = Decode(Valid) \o Decode(Valid)

C3_Witness ==
    /\ chars = Dangling1 /\ pc = "scanned"
    /\ abandoned = << <<3, 4>> >>
    /\ messages = Decode(Valid) \o Decode(Valid)

RECURSIVE DecodedFrom(_)
DecodedFrom(texts) ==
    IF texts = <<>> THEN <<>> ELSE Decode(Head(texts)) \o DecodedFrom(Tail(texts))

\* C4: the messages are the decoded spans, in span order, so no more than the
\* spans; during the scan the cursor is one past the last span or the last
\* unmatched '{', whichever is later, also when that span failed to decode; and
\* once the scan is over every outermost closing span behind a span that failed
\* has been emitted.
C4_DecodeFailureSkipped ==
    /\ messages = DecodedFrom(SpanTexts)
    /\ Len(messages) <= Len(spans)
    /\ pc = "scan" => start_idx = Max(LastEnd, LastLeft) + 1
    /\ \A k \in DOMAIN spans :
          (Fails(k) /\ ScanOver) =>
              \A q \in Positions(chars) :
                 (q > spans[k][2] /\ Outermost(chars, spans[k][2] + 1, q))
                    => \E j \in DOMAIN spans : spans[j] = <<q, MatchOf(chars, q)>>

C4_Witness ==
    /\ pc = "scanned" /\ Len(spans) = 2 /\ Fails(1) /\ ~Fails(2)
    /\ Len(messages) = 1

ReadReturned == pc \notin {"read", "scan", "scanned"} /\ exit # "read_error"
ReturnedErr == exit = "no_valid_messages"
ReturnedOk ==
    pc \in {"simplify", "tokenize", "filter", "stem", "count", "rank", "save_txt",
            "render", "done"} \/ exit = "write_error"

\* C5: once read_messages has returned, it returned the "no valid messages"
\* error exactly when no span decoded, which is so for an empty input and for
\* an input without '{'; and it returned a non-empty list otherwise.
C5_NoValidMessages ==
    ReadReturned =>
        /\ ReturnedErr <=> (\A k \in DOMAIN spans : Fails(k))
        /\ ReturnedOk <=> ~ReturnedErr
        /\ ReturnedOk => messages # <<>>
        /\ (chars = <<>> \/ NoOpenFrom(chars, 0)) => ReturnedErr

C5_Witness ==
    /\ ReadReturned /\ ReturnedErr /\ spans # <<>>

Tokenized == pc \in {"filter", "stem", "count", "rank", "save_txt", "render", "done"}
Textless == messages # <<>> /\ simple_messages = <<>>

\* C6 as stated: with a record decoded and no message with text, main ends in
\* the fatal state and never tokenizes.
C6_Original == ~(Textless /\ Tokenized)

\* C6, amended: with a record decoded and no message with text main does not
\* stop: it tokenizes, filters, stems, counts and ranks the empty list, each
\* giving an empty result, and fails only if an output file cannot be written;
\* the "no valid messages" failure happens only with no decoded record.
C6_Amended ==
    /\ exit = "no_valid_messages" => messages = <<>>
    /\ pc = "fatal" => exit \in {"read_error", "no_valid_messages", "write_error"}
    /\ (Textless /\ pc = "fatal") => exit = "write_error"
    /\ (Textless /\ Tokenized) =>
          /\ tokens = <<>> /\ filtered_tokens = <<>> /\ stemmed_tokens = <<>>
          /\ word_counts = EmptyMap /\ words = <<>>
    /\ (Textless /\ pc = "done") => exit = "ok"

C6_Witness == Textless /\ pc = "done" /\ exit = "ok" /\ words = <<>>

(***************************************************************************)
(* The text functions, stated without their loops                           *)
(***************************************************************************)
\* the total length of the first k pieces
RECURSIVE Offset(_, _)
Offset(pieces, k) ==
    IF k = 0 THEN 0 ELSE Offset(pieces, k - 1) + Len(pieces[k])

\* s is the pieces one after the other
IsJoinOf(s, pieces) ==
    /\ Len(s) = Offset(pieces, Len(pieces))
    /\ \A k \in DOMAIN pieces :
          SubSeq(s, Offset(pieces, k - 1) + 1, Offset(pieces, k)) = pieces[k]

\* what an element of a text sequence contributes
Contribution(part) ==
    CASE part.kind = "String" -> part.s
      [] part.kind = "Object" /\ part.has_text /\ part.text.kind = "String" ->
            part.text.s
      [] OTHER -> <<>>

ExampleParts ==
    <<StringValue(<<"a">>), ObjectValue(StringValue(<<"b">>)),
      ObjectValue(StringValue(<<"c">>))>>
ExampleEntities == <<TextEntity(<<"x">>), TextEntity(<<"y">>)>>

\* C7: extract_message_text gives the text itself for a plain string, also the
\* empty one, whatever text_entities holds; for a sequence the contributions
\* of its elements in order; for any other shape the texts of text_entities
\* in order, the empty string when there are none.
C7_ExtractText ==
    pc = "extracted" =>
        LET m == messages[1]
        IN  /\ m.text.kind = "String" => text = m.text.s
            /\ m.text.kind = "Array" =>
                  IsJoinOf(text, [i \in DOMAIN m.text.parts |->
                                     Contribution(m.text.parts[i])])
            /\ m.text.kind \notin {"String", "Array"} =>
                  /\ IsJoinOf(text, [i \in DOMAIN m.text_entities |->
                                        m.text_entities[i].text])
                  /\ m.text_entities = <<>> => text = <<>>
            /\ m.text = ArrayValue(ExampleParts) => text = <<"a", "b", "c">>
            /\ (m.text = NullValue /\ m.text_entities = ExampleEntities)
                  => text = <<"x", "y">>

C7_Witness ==
    /\ pc = "extracted"
    /\ messages[1].text = ArrayValue(ExampleParts)
    /\ messages[1].text_entities = ExampleEntities
    /\ text = <<"a", "b", "c">>

\* the messages that have text, and the k-th of them
WithText == {i \in DOMAIN messages : extract_message_text(messages[i]) # <<>>}
Kept(k) == CHOOSE i \in WithText : Cardinality({j \in WithText : j < i}) = k - 1

ExpectedUsername(m) ==
    CASE m.from # None -> m.from[1]
      [] m.from = None /\ m.from_id # None -> m.from_id[1]
      [] OTHER -> Anonymous

InOrderWithNames ==
    /\ Len(simple_messages) = Cardinality(WithText)
    /\ \A k \in DOMAIN simple_messages :
          /\ simple_messages[k].text = extract_message_text(messages[Kept(k)])
          /\ simple_messages[k].username = ExpectedUsername(messages[Kept(k)])
          /\ simple_messages[k].text # <<>>

\* C8 as stated: one SimpleMessage per message with text, in order, named by
\* from, else from_id, else "anonymous", and with username and text non-empty.
C8_Original ==
    pc = "tokenize" =>
        /\ InOrderWithNames
        /\ \A k \in DOMAIN simple_messages : simple_messages[k].username # <<>>

\* C8, amended: one SimpleMessage per message with text, in order, named by
\* from, else from_id, else "anonymous", with a non-empty text; the username is
\* empty exactly when the name it is taken from is the empty string.
C8_Amended ==
    pc = "tokenize" =>
        /\ InOrderWithNames
        /\ \A k \in DOMAIN simple_messages :
              LET m == messages[Kept(k)]
              IN  simple_messages[k].username = <<>> <=>
                     \/ m.from = Some(<<>>)
                     \/ m.from = None /\ m.from_id = Some(<<>>)

C8_Witness ==
    /\ pc = "tokenize" /\ Len(messages) = 2 /\ Len(simple_messages) = 1
    /\ WithText = {2}
    /\ messages[2].from = None /\ messages[2].from_id = Some(<<"u", "1">>)
    /\ simple_messages[1].username = <<"u", "1">>

(***************************************************************************)
(* The tokenizer, stated without its loops                                  *)
(***************************************************************************)
TextOf(n) == simple_messages[n].text
WordAt(n, i) == i \in 1..Len(TextOf(n)) /\ IsWordChar(TextOf(n)[i])

\* the maximal runs: <<message, first, last>>
Runs ==
    {r \in UNION {{<<n, i, j>> : i \in 1..Len(TextOf(n)), j \in 1..Len(TextOf(n))} :
                     n \in DOMAIN simple_messages} :
        /\ r[2] <= r[3]
        /\ \A k \in r[2]..r[3] : WordAt(r[1], k)
        /\ ~WordAt(r[1], r[2] - 1)
        /\ ~WordAt(r[1], r[3] + 1)}

RunWord(r) == to_lowercase(SubSeq(TextOf(r[1]), r[2], r[3]))
Before(r, q) == r[1] < q[1] \/ (r[1] = q[1] /\ r[2] < q[2])
EffectiveMin == IF min_length > MinLengthFloor THEN min_length ELSE MinLengthFloor
LongRuns == {r \in Runs : StrLen(RunWord(r)) >= EffectiveMin}
LongRun(k) == CHOOSE r \in LongRuns : Cardinality({q \in LongRuns : Before(q, r)}) = k - 1

TokensAreLongRuns ==
    /\ Len(tokens) = Cardinality(LongRuns)
    /\ \A k \in DOMAIN tokens : tokens[k] = Token(RunWord(LongRun(k)))

IsExample ==
    /\ simple_messages = <<SimpleMessage(Anonymous, ExampleText)>>
    /\ EffectiveMin = 4

There == <<"t", "h", "e", "r", "e">>
RustLang == <<"r", "u", "s", "t", "-", "l", "a", "n", "g">>

\* C9 as stated: with minimum length 4 the example text gives there, rust-lang,
\* 123.
C9_Original ==
    (pc = "filter" /\ IsExample)
        => tokens = <<Token(There), Token(RustLang), Token(<<"1", "2", "3">>)>>

\* C9, amended: the tokens are the maximal runs of word characters, message by
\* message and left to right, lowercased, without the runs whose lowercased
\* form is shorter in bytes than the minimum; with minimum length 4 the example
\* text gives there, rust-lang: "hi", "123" and "a" are too short.
C9_Amended ==
    pc = "filter" =>
        /\ TokensAreLongRuns
        /\ IsExample => tokens = <<Token(There), Token(RustLang)>>

C9_Witness ==
    pc = "filter" /\ IsExample /\ tokens = <<Token(There), Token(RustLang)>>

(***************************************************************************)
(* The ranking, stated without its loops                                    *)
(***************************************************************************)
Occurrences(w) == Cardinality({i \in DOMAIN stemmed_tokens : stemmed_tokens[i].word = w})
Distinct == {stemmed_tokens[i].word : i \in DOMAIN stemmed_tokens}
KeptWords == {words[k][1] : k \in DOMAIN words}

\* C10: the ranked list has min(N, distinct words) entries, each word at most
\* once with the number of its occurrences, at least 1, in non-increasing order
\* of count, and no word left out has a higher count than a word kept; the
\* counts a: 5, b: 9, c: 1 with N = 2 give (b, 9), (a, 5).
C10_Ranked ==
    /\ pc \in {"rank", "save_txt"} =>
          /\ DOMAIN word_counts = Distinct
          /\ \A w \in Distinct : word_counts[w] = Occurrences(w)
    /\ pc = "save_txt" =>
          /\ Len(words) = Min(max_words, Cardinality(Distinct))
          /\ \A k \in DOMAIN words :
                /\ words[k][1] \in Distinct
                /\ words[k][2] = Occurrences(words[k][1])
                /\ words[k][2] >= 1
          /\ \A j, k \in DOMAIN words : words[j][1] = words[k][1] => j = k
          /\ \A k \in DOMAIN words : k < Len(words) => words[k][2] >= words[k + 1][2]
          /\ \A w \in Distinct \ KeptWords :
                \A k \in DOMAIN words : Occurrences(w) <= words[k][2]
          /\ (stemmed_tokens = ExampleTokens /\ max_words = 2)
                => words = << <<(<<"b">>), 9>>, <<(<<"a">>), 5>> >>

C10_Witness ==
    /\ pc = "save_txt" /\ stemmed_tokens = ExampleTokens
    /\ words = << <<(<<"b">>), 9>>, <<(<<"a">>), 5>> >>

====
